---- MODULE Spec2Model ----
(***************************************************************************)
(* A model of the independent entry points of the repository:             *)
(*   - api/archiveAllUserChats-30days.js : the archival script            *)
(*   - the export script (exportUserConversations / exportAllUsers)       *)
(*   - client/src/components/Artifacts/Code.tsx and MonacoEditor :         *)
(*     content normalisation, the read-only editor widget, the name shown *)
(*     in its tab header, and the copy button                             *)
(* Strings are sequences of one-character strings, so that the regular    *)
(* expressions and the string conversions of the code act on characters.  *)
(***************************************************************************)
EXTENDS Integers, Sequences, FiniteSets, TLC

VARIABLES
    \* ---- archival script ----
    argv,              \* process.argv.slice(2): the command-line arguments
    updatedAt,         \* Conversation.updatedAt, in days
    isArchived,        \* Conversation.isArchived
    now,               \* the wall clock (new Date()), in days
    apc,               \* position of archiveOldConversations
    argIdx,            \* index of usernameToArchive in usernamesToArchive
    userId,            \* user._id of the user being processed
    dateThreshold,     \* dateThreshold of the user being processed
    selectedAt,        \* the day dateThreshold was computed on
    oldConversations,  \* result of the selection query
    connection,        \* mongoose connection: "none" | "open" | "closed"
    dbLog,             \* the database operations issued so far
    exitCode,          \* exit status of the process (-1 while running)
    before,            \* isArchived when the run started
    processed,         \* iterations that ran to their end: [user, at], `at` the day of the selection
    console            \* what console.log / console.error have printed: a set of messages

VARIABLES
    \* ---- export script ----
    userName,          \* User.username by _id (NoName when the field is unset)
    convUser,          \* Conversation.user by conversation
    convTitle,         \* Conversation.title
    convModel,         \* Conversation.model
    convMessages,      \* the messages stored for each conversation
    epc,               \* position of exportAllUsers / exportUserConversations
    users,             \* exportAllUsers: the fetched users
    userIdx,           \* exportAllUsers: index of the user being exported
    conversations,     \* exportUserConversations: the fetched conversations
    convIdx,           \* exportUserConversations: index of the conversation
    messages,          \* exportUserConversations: the fetched messages
    files,             \* the filesystem: a set of <<path, content>>
    expConnection,     \* mongoose connection of the export script
    errorsCaught,      \* number of errors logged by a catch block
    conversationFailed,\* an error was raised while a conversation was exported
    exportedAfterError \* a file was written after such an error

VARIABLES
    \* ---- title sanitisation, taken alone ----
    title,             \* conversation.title
    conversationTitle, \* the sanitised title
    sanitized          \* the replace has run

VARIABLES
    \* ---- Code.tsx: content normalisation ----
    children,          \* the children prop of the code component
    result,            \* what processContent(children) came to
    called,            \* processContent has run
    \* ---- MonacoEditor ----
    content,           \* prop: the text
    language,          \* prop: the language tag
    filename,          \* prop: the display name
    height,            \* state: height in px
    currentLanguage,   \* state: the language label
    showLanguages,     \* state: the dropdown is open
    mounted,           \* editorRef.current and monacoRef.current are set
    modelLanguage,     \* language of the editor's text model
    modelValue         \* text of the editor's text model

VARIABLES
    \* ---- Code.tsx: CodeMarkdown and the code component ----
    markdownFilename,  \* the filename prop of CodeMarkdown
    className,         \* className of the code node handed to the renderer
    inline,            \* the node is inline code
    renderer,          \* who rendered the node: "none" | "CodeMarkdown" | "code"
    elementProps,      \* the props the rendered element received
    element,           \* the element rendered: "none" | "code" | "MonacoEditor"
    displayFilename,   \* the filename given to MonacoEditor, shown in its tab header
    \* ---- Code.tsx: CopyCodeButton ----
    buttonContent,     \* prop: the text to copy
    clipboard,         \* the system clipboard
    isCopied,          \* state: the acknowledgement is showing
    timers,            \* pending setTimeout callbacks: their due times, in order
    clock,             \* the time, in seconds
    lastClick          \* the time of the latest click (NoClick before the first)

archVars == <<argv, updatedAt, isArchived, now, apc, argIdx, userId, dateThreshold,
              selectedAt, oldConversations, connection, dbLog, exitCode, before, processed,
              console>>

expVars == <<userName, convUser, convTitle, convModel, convMessages, epc, users, userIdx,
             conversations, convIdx, messages, files, expConnection, errorsCaught,
             conversationFailed, exportedAfterError>>

sanVars == <<title, conversationTitle, sanitized>>

codeVars == <<children, result, called>>

edVars == <<content, language, filename, height, currentLanguage, showLanguages, mounted,
            modelLanguage, modelValue>>

mdVars == <<markdownFilename, className, inline, renderer, elementProps, element,
           displayFilename>>

copyVars == <<buttonContent, clipboard, isCopied, timers, clock, lastClick>>

vars == <<archVars, expVars, sanVars, codeVars, edVars, mdVars, copyVars>>

(***************************************************************************)
(* Bounds of the model                                                     *)
(***************************************************************************)
MaxArgs == 2
MaxTicks == 1
MaxMessages == 1
MaxTitleLen == 3
MaxArrayLen == 2
MaxNesting == 2
MaxActivity == 1
MaxClock == 8
MaxTimers == 3

(***************************************************************************)
(* Characters and strings                                                  *)
(***************************************************************************)
Lower == {"a","b","c","d","e","f","g","h","i","j","k","l","m",
          "n","o","p","q","r","s","t","u","v","w","x","y","z"}
Upper == {"A","B","C","D","E","F","G","H","I","J","K","L","M",
          "N","O","P","Q","R","S","T","U","V","W","X","Y","Z"}
Digit == {"0","1","2","3","4","5","6","7","8","9"}

Range(s) == {s[i] : i \in 1..Len(s)}

(***************************************************************************)
(* The archival script                                                     *)
(***************************************************************************)
DAYS_THRESHOLD == 30

\* The day the run starts on.
StartDay == 31

NoUser == "null"

\* The users collection: _id -> username.
Users == [u1 |-> <<"a","l">>, u2 |-> <<"b","o","_","2">>]
UserIds == DOMAIN Users

\* The conversations collection: _id -> owning user.
ConvOwner == [c1 |-> "u1", c2 |-> "u1", c3 |-> "u2"]
ConvIds == DOMAIN ConvOwner

DryRunFlag == <<"-","-","d","r","y","-","r","u","n">>

\* What may stand on the command line: two existing users, a well-formed name
\* of no user, a malformed name, and the flag.
ArgTokens == {Users["u1"], Users["u2"], <<"z","e","d">>, <<"a","l","!">>, DryRunFlag}

ArgLists == UNION {[1..n -> ArgTokens] : n \in 0..MaxArgs}

\* The flag looked for in the first position only.
DRY_RUN_FirstArgOnly == Len(argv) >= 1 /\ argv[1] = DryRunFlag
\* const DRY_RUN = process.argv.includes('--dry-run')
DRY_RUN == DryRunFlag \in Range(argv)

\* /^[a-zA-Z0-9_]+$/.test(s)
ValidUsername(s) ==
    /\ Len(s) >= 1
    /\ \A i \in 1..Len(s) : s[i] \in Lower \cup Upper \cup Digit \cup {"_"}

\* User.findOne({ username }): the _id of a user of that name, or NoUser.
FindOneUser(name) ==
    IF \E u \in UserIds : Users[u] = name
      THEN CHOOSE u \in UserIds : Users[u] = name
      ELSE NoUser

\* The selection with $lte in place of $lt.
SelectOldInclusive(u, threshold) ==
    {c \in ConvIds : ConvOwner[c] = u /\ updatedAt[c] <= threshold /\ ~isArchived[c]}
\* Conversation.find({ user, updatedAt: { $lt: threshold }, isArchived: { $ne: true } })
SelectOld(u, threshold) ==
    {c \in ConvIds : ConvOwner[c] = u /\ updatedAt[c] < threshold /\ ~isArchived[c]}

\* Conversation.updateMany({ _id: { $in: ids } }, { $set: { isArchived: true } })
UpdateMany(ids) == [c \in ConvIds |-> IF c \in ids THEN TRUE ELSE isArchived[c]]

\* An exit that reports success: process.exit(0).
ProcessExitZero ==
    /\ apc' = "exited"
    /\ exitCode' = 0

\* process.exit(1): the process ends at once; no catch or finally block runs.
ProcessExit ==
    /\ apc' = "exited"
    /\ exitCode' = 1

\* A `break` in place of the loop's `continue`: the remaining usernames are skipped.
LeaveLoop ==
    /\ apc' = "finally"
    /\ argIdx' = argIdx

\* `continue`: the for loop goes on with the next username of the list.
NextUsername ==
    /\ apc' = "validate"
    /\ argIdx' = argIdx + 1

\* The archival script touches nothing of the other entry points.
ArchFrame == UNCHANGED <<expVars, sanVars, codeVars, edVars, mdVars, copyVars>>

ArchInit ==
    /\ argv \in ArgLists
    /\ updatedAt \in [ConvIds -> {StartDay - DAYS_THRESHOLD - 1,
                                  StartDay - DAYS_THRESHOLD,
                                  StartDay - DAYS_THRESHOLD + 1}]
    /\ isArchived \in [ConvIds -> BOOLEAN]
    /\ now = StartDay
    /\ apc = "connect"
    /\ argIdx = 0
    /\ userId = NoUser
    /\ dateThreshold = 0
    /\ selectedAt = 0
    /\ oldConversations = {}
    /\ connection = "none"
    /\ dbLog = {}
    /\ exitCode = -1
    /\ before = isArchived
    /\ processed = {}
    /\ console = {}

\* await mongoose.connect(mongoURI, ...)
ArchConnect ==
    /\ apc = "connect"
    /\ dbLog' = dbLog \cup {"connect"}
    /\ \/ connection' = "open" /\ apc' = "args"
       \/ connection' = connection /\ apc' = "catch"
    /\ UNCHANGED <<argv, updatedAt, isArchived, now, argIdx, userId, dateThreshold, selectedAt,
                   oldConversations, exitCode, before, processed, console>>
    /\ ArchFrame

\* const args = process.argv.slice(2); if (args.length === 0) process.exit(1)
ArchParseArgs ==
    /\ apc = "args"
    /\ IF Len(argv) = 0
         THEN /\ ProcessExit
              /\ argIdx' = argIdx
              /\ console' = console \cup {<<"Please provide a username">>}
         ELSE /\ apc' = "validate"
              /\ argIdx' = 1
              /\ UNCHANGED <<exitCode, console>>
    /\ UNCHANGED <<argv, updatedAt, isArchived, now, userId, dateThreshold, selectedAt,
                   oldConversations, connection, dbLog, before, processed>>
    /\ ArchFrame

\* Head of the for loop and the format test of usernameToArchive.
ArchValidate ==
    /\ apc = "validate"
    /\ IF argIdx > Len(argv)
         THEN /\ apc' = "finally"
              /\ console' = console \cup {<<"Archiving process completed">>}
              /\ exitCode' = exitCode
         ELSE IF ~ValidUsername(argv[argIdx])
                THEN /\ ProcessExit
                     /\ console' = console \cup {<<"Invalid username format", argv[argIdx]>>}
                ELSE /\ apc' = "findUser"
                     /\ UNCHANGED <<exitCode, console>>
    /\ UNCHANGED <<argv, updatedAt, isArchived, now, argIdx, userId, dateThreshold, selectedAt,
                   oldConversations, connection, dbLog, before, processed>>
    /\ ArchFrame

\* const user = await User.findOne({ username }).lean(); if (!user) process.exit(1)
ArchFindUser ==
    /\ apc = "findUser"
    /\ dbLog' = dbLog \cup {"findOne"}
    /\ \/ /\ FindOneUser(argv[argIdx]) = NoUser
          /\ ProcessExit
          /\ userId' = userId
          /\ console' = console \cup {<<"User not found", argv[argIdx]>>}
       \/ /\ FindOneUser(argv[argIdx]) # NoUser
          /\ userId' = FindOneUser(argv[argIdx])
          /\ apc' = "find"
          /\ UNCHANGED <<exitCode, console>>
       \/ /\ apc' = "catch"                                 \* the query rejects
          /\ UNCHANGED <<userId, exitCode, console>>
    /\ UNCHANGED <<argv, updatedAt, isArchived, now, argIdx, dateThreshold, selectedAt,
                   oldConversations, connection, before, processed>>
    /\ ArchFrame

\* dateThreshold = now - DAYS_THRESHOLD; oldConversations = await Conversation.find(...);
\* then the two early `continue`s (nothing selected, dry run).
ArchFind ==
    /\ apc = "find"
    /\ dbLog' = dbLog \cup {"find"}
    /\ dateThreshold' = now - DAYS_THRESHOLD
    /\ selectedAt' = now
    /\ \/ /\ oldConversations' = SelectOld(userId, now - DAYS_THRESHOLD)
          /\ IF oldConversations' = {}
               THEN /\ console' = console \cup
                          {<<"No conversations to archive for user", argv[argIdx]>>}
                    /\ NextUsername
                    /\ processed' = processed \cup
                          {[user |-> userId, at |-> now]}
               ELSE IF DRY_RUN
               THEN /\ console' = console \cup {<<"Dry Run", argv[argIdx]>>}
                    /\ NextUsername
                    /\ processed' = processed \cup
                          {[user |-> userId, at |-> now]}
               ELSE /\ apc' = "update"
                    /\ UNCHANGED <<argIdx, processed, console>>
       \/ /\ apc' = "catch"                                 \* the query rejects
          /\ UNCHANGED <<oldConversations, argIdx, processed, console>>
    /\ UNCHANGED <<argv, updatedAt, isArchived, now, userId, connection, exitCode, before>>
    /\ ArchFrame

\* await Conversation.updateMany({ _id: { $in: conversationIds } }, ...)
ArchUpdate ==
    /\ apc = "update"
    /\ dbLog' = dbLog \cup {"updateMany"}
    /\ \/ /\ isArchived' = UpdateMany(oldConversations)
          /\ apc' = "validate"
          /\ argIdx' = argIdx + 1
          /\ processed' = processed \cup {[user |-> userId, at |-> selectedAt]}
          /\ console' = console \cup {<<"Archived conversations for user", argv[argIdx]>>}
       \/ /\ apc' = "catch"                                 \* the update rejects
          /\ UNCHANGED <<isArchived, argIdx, processed, console>>
    /\ UNCHANGED <<argv, updatedAt, now, userId, dateThreshold, selectedAt, oldConversations,
                   connection, exitCode, before>>
    /\ ArchFrame

\* catch (error) { console.error(...) }
ArchCatch ==
    /\ apc = "catch"
    /\ apc' = "finally"
    /\ console' = console \cup {<<"Error archiving conversations">>}
    /\ UNCHANGED <<argv, updatedAt, isArchived, now, argIdx, userId, dateThreshold, selectedAt,
                   oldConversations, connection, dbLog, exitCode, before, processed>>
    /\ ArchFrame

\* finally { await mongoose.disconnect() }; the script then ends with status 0.
ArchFinally ==
    /\ apc = "finally"
    /\ connection' = "closed"
    /\ dbLog' = dbLog \cup {"disconnect"}
    /\ apc' = "ended"
    /\ exitCode' = 0
    /\ UNCHANGED <<argv, updatedAt, isArchived, now, argIdx, userId, dateThreshold, selectedAt,
                   oldConversations, before, processed, console>>
    /\ ArchFrame

\* Time passes while the script waits for the database.
Tick ==
    /\ apc \in {"findUser", "find", "update"}
    /\ now < StartDay + MaxTicks
    /\ now' = now + 1
    /\ UNCHANGED <<argv, updatedAt, isArchived, apc, argIdx, userId, dateThreshold, selectedAt,
                   oldConversations, connection, dbLog, exitCode, before, processed, console>>
    /\ ArchFrame

\* The conversations the application has written to since the run started.
Refreshed == {c \in ConvIds : updatedAt[c] >= StartDay}

\* The application, running beside the script, saves new activity in a
\* conversation: Mongoose stamps updatedAt with the time of the write.
ConversationActivity ==
    /\ apc \notin {"idle", "ended", "exited"}
    /\ Cardinality(Refreshed) < MaxActivity
    /\ \E c \in ConvIds : updatedAt' = [updatedAt EXCEPT ![c] = now]
    /\ UNCHANGED <<argv, isArchived, now, apc, argIdx, userId, dateThreshold, selectedAt,
                   oldConversations, connection, dbLog, exitCode, before, processed, console>>
    /\ ArchFrame

archiveOldConversations ==
    \/ ArchConnect
    \/ ArchParseArgs
    \/ ArchValidate
    \/ ArchFindUser
    \/ ArchFind
    \/ ArchUpdate
    \/ ArchCatch
    \/ ArchFinally
    \/ Tick

(***************************************************************************)
(* The export script                                                       *)
(***************************************************************************)
NoName == <<"undefined">>

\* const exportDir = 'export'
exportDir == <<"e","x","p","o","r","t">>

UnknownUser == <<"u","n","k","n","o","w","n","_","u","s","e","r">>

JsonExt == <<".","j","s","o","n">>

\* Conversation.conversationId, of one fixed length as the application issues them.
ConversationId == [c1 |-> <<"i","-","1">>, c2 |-> <<"i","-","2">>, c3 |-> <<"j","-","1">>]

\* The order in which find() returns the documents of a collection.
UserOrder == <<"u1", "u2">>
ConvOrder == <<"c1", "c2", "c3">>

\* Titles and model names of the stored conversations.
ExportTitles == {<<"Q","&","A",":"," ","5","%","/","?">>, <<"a","-","b">>}
ExportModels == {<<"g","p","t","-","4">>, <<"o","1">>}
\* The messages stored for conversation c when it holds n of them.
MessagesOf(c, n) == [i \in 1..n |-> <<c, i>>]

\* The characters of the class [/\\?%*:|"<>]
SpecialChars == {"/", "\\", "?", "%", "*", ":", "|", "\"", "<", ">"}

\* The replace without the g flag: the first match only.
SanitizeFirstOnly(t) ==
    [i \in 1..Len(t) |->
        IF t[i] \in SpecialChars /\ \A j \in 1..(i-1) : t[j] \notin SpecialChars
          THEN "-" ELSE t[i]]
\* conversation.title.replace(/[/\\?%*:|"<>]/g, '-')
SanitizeTitle(t) ==
    [i \in 1..Len(t) |-> IF t[i] \in SpecialChars THEN "-" ELSE t[i]]

\* path.join(a, b, c) for segments that need no normalisation: the non-empty
\* segments separated by '/'.
PathJoin(a, b, c) ==
    LET sep(x, y) == IF x = <<>> THEN y ELSE IF y = <<>> THEN x ELSE x \o <<"/">> \o y
    IN sep(sep(a, b), c)

\* The file name without the conversation id: `${conversationTitle}--${conversation.model}.json`
FileNameWithoutId(name, model, id) ==
    name \o <<"-","-">> \o model \o JsonExt

\* `${conversationTitle}--${conversation.model}-${conversation.conversationId}.json`
FileName(name, model, id) ==
    name \o <<"-","-">> \o model \o <<"-">> \o id \o JsonExt

\* user?.username ?? 'unknown_user'
ResolvedUserName(u) == IF userName[u] = NoName THEN UnknownUser ELSE userName[u]

\* const exportPath = path.join(exportDir, userName, `...`)
ExportPath(u, c) ==
    PathJoin(exportDir, ResolvedUserName(u),
             FileName(SanitizeTitle(convTitle[c]), convModel[c], ConversationId[c]))

\* fs.writeFileSync(path, JSON.stringify(messages, null, 2)): replaces the file.
WriteFile(fs, path, msgs) == {f \in fs : f[1] # path} \cup {<<path, <<"json", msgs>>>>}

\* Conversation.find({ user: userId }).lean()
ConversationsOf(u) ==
    LET owned(c) == convUser[c] = u
    IN SelectSeq(ConvOrder, owned)

\* The loop left after one iteration (`return` in place of `continue`).
NextConversationReturns(idx) == "uFinally"
\* The position after one iteration of the loop over the conversations
\* (`continue` and the end of the body lead to the next conversation).
NextConversation(idx) == IF idx + 1 > Len(conversations) THEN "uFinally" ELSE "cMessages"

\* The export script touches nothing of the other entry points.
ExpFrame == UNCHANGED <<archVars, sanVars, codeVars, edVars, mdVars, copyVars>>

\* Any owner, title and message count for each conversation; the first two
\* conversations share their model, the first and the third differ in title.
ExpInit ==
    /\ userName \in [UserIds -> {Users["u1"], NoName}]
    /\ userName["u1"] # NoName
    /\ convUser \in [ConvIds -> UserIds]
    /\ convTitle \in [ConvIds -> ExportTitles]
    /\ convTitle["c1"] # convTitle["c3"]
    /\ convModel \in [ConvIds -> ExportModels]
    /\ convModel["c1"] = convModel["c2"]
    /\ \E n \in [ConvIds -> 0..MaxMessages] :
          convMessages = [c \in ConvIds |-> MessagesOf(c, n[c])]
    /\ epc = "allConnect"
    /\ users = <<>>
    /\ userIdx = 0
    /\ conversations = <<>>
    /\ convIdx = 0
    /\ messages = <<>>
    /\ files = {}
    /\ expConnection = "none"
    /\ errorsCaught = 0
    /\ conversationFailed = FALSE
    /\ exportedAfterError = FALSE

\* exportAllUsers: await mongoose.connect(...)
AllConnect ==
    /\ epc = "allConnect"
    /\ \/ expConnection' = "open" /\ epc' = "allFindUsers"
       \/ expConnection' = expConnection /\ epc' = "allCatch"
    /\ UNCHANGED <<userName, convUser, convTitle, convModel, convMessages, users, userIdx,
                   conversations, convIdx, messages, files, errorsCaught, conversationFailed, exportedAfterError>>
    /\ ExpFrame

\* exportAllUsers: const users = await User.find({}, 'username _id').lean()
AllFindUsers ==
    /\ epc = "allFindUsers"
    /\ \/ users' = UserOrder /\ userIdx' = 1 /\ epc' = "allLoop"
       \/ UNCHANGED <<users, userIdx>> /\ epc' = "allCatch"
    /\ UNCHANGED <<userName, convUser, convTitle, convModel, convMessages,
                   conversations, convIdx, messages, files, expConnection, errorsCaught,
                   conversationFailed, exportedAfterError>>
    /\ ExpFrame

\* exportAllUsers: for (const user of users) await exportUserConversations(user._id)
AllLoop ==
    /\ epc = "allLoop"
    /\ epc' = IF userIdx > Len(users) THEN "allFinally" ELSE "uConnect"
    /\ UNCHANGED <<userName, convUser, convTitle, convModel, convMessages, users, userIdx,
                   conversations, convIdx, messages, files, expConnection, errorsCaught,
                   conversationFailed, exportedAfterError>>
    /\ ExpFrame

\* exportUserConversations: await mongoose.connect(...)
UserConnect ==
    /\ epc = "uConnect"
    /\ \/ expConnection' = "open" /\ epc' = "uFind"
       \/ expConnection' = expConnection /\ epc' = "uCatch"
    /\ UNCHANGED <<userName, convUser, convTitle, convModel, convMessages, users, userIdx,
                   conversations, convIdx, messages, files, errorsCaught, conversationFailed, exportedAfterError>>
    /\ ExpFrame

\* exportUserConversations: const conversations = await Conversation.find(...);
\* if there are none, log and return.
UserFindConversations ==
    /\ epc = "uFind"
    /\ \/ /\ conversations' = ConversationsOf(users[userIdx])
          /\ convIdx' = 1
          /\ epc' = IF Len(conversations') = 0 THEN "uFinally" ELSE "cMessages"
       \/ /\ epc' = "uCatch"
          /\ UNCHANGED <<conversations, convIdx>>
    /\ UNCHANGED <<userName, convUser, convTitle, convModel, convMessages, users, userIdx,
                   messages, files, expConnection, errorsCaught, conversationFailed, exportedAfterError>>
    /\ ExpFrame

\* Loop body, first half: sanitise the title, await getMessages({ conversationId });
\* if there are none, log and continue.
ConvGetMessages ==
    /\ epc = "cMessages"
    /\ \/ /\ messages' = convMessages[conversations[convIdx]]
          /\ IF Len(messages') = 0
               THEN convIdx' = convIdx + 1 /\ epc' = NextConversation(convIdx)
               ELSE convIdx' = convIdx /\ epc' = "cWrite"
          /\ conversationFailed' = conversationFailed
       \/ /\ epc' = "uCatch"                               \* getMessages rejects
          /\ conversationFailed' = TRUE
          /\ UNCHANGED <<messages, convIdx>>
    /\ UNCHANGED <<userName, convUser, convTitle, convModel, convMessages, users, userIdx,
                   conversations, files, expConnection, errorsCaught, exportedAfterError>>
    /\ ExpFrame

\* Loop body, second half: await User.findById(userId, 'username'), build the
\* path, fs.mkdirSync, fs.writeFileSync.
ConvWrite ==
    /\ epc = "cWrite"
    /\ \/ /\ files' = WriteFile(files, ExportPath(users[userIdx], conversations[convIdx]),
                                messages)
          /\ exportedAfterError' = (exportedAfterError \/ conversationFailed)
          /\ conversationFailed' = conversationFailed
          /\ convIdx' = convIdx + 1
          /\ epc' = NextConversation(convIdx)
       \/ /\ epc' = "uCatch"                   \* findById rejects, or fs throws
          /\ conversationFailed' = TRUE
          /\ UNCHANGED <<files, exportedAfterError, convIdx>>
    /\ UNCHANGED <<userName, convUser, convTitle, convModel, convMessages, users, userIdx,
                   conversations, messages, expConnection, errorsCaught>>
    /\ ExpFrame

\* exportUserConversations: catch (error) { console.error(...) }
UserCatch ==
    /\ epc = "uCatch"
    /\ errorsCaught' = errorsCaught + 1
    /\ epc' = "uFinally"
    /\ UNCHANGED <<userName, convUser, convTitle, convModel, convMessages, users, userIdx,
                   conversations, convIdx, messages, files, expConnection, conversationFailed, exportedAfterError>>
    /\ ExpFrame

\* exportUserConversations: finally { mongoose.disconnect() }, then the call
\* returns normally into the loop of exportAllUsers.
UserFinally ==
    /\ epc = "uFinally"
    /\ expConnection' = "closed"
    /\ userIdx' = userIdx + 1
    /\ epc' = "allLoop"
    /\ UNCHANGED <<userName, convUser, convTitle, convModel, convMessages, users,
                   conversations, convIdx, messages, files, errorsCaught, conversationFailed, exportedAfterError>>
    /\ ExpFrame

\* exportAllUsers: catch (error) { console.error(...) }
AllCatch ==
    /\ epc = "allCatch"
    /\ errorsCaught' = errorsCaught + 1
    /\ epc' = "allFinally"
    /\ UNCHANGED <<userName, convUser, convTitle, convModel, convMessages, users, userIdx,
                   conversations, convIdx, messages, files, expConnection, conversationFailed, exportedAfterError>>
    /\ ExpFrame

\* exportAllUsers: finally { mongoose.disconnect() }
AllFinally ==
    /\ epc = "allFinally"
    /\ expConnection' = "closed"
    /\ epc' = "done"
    /\ UNCHANGED <<userName, convUser, convTitle, convModel, convMessages, users, userIdx,
                   conversations, convIdx, messages, files, errorsCaught, conversationFailed, exportedAfterError>>
    /\ ExpFrame

exportAllUsers ==
    \/ AllConnect
    \/ AllFindUsers
    \/ AllLoop
    \/ UserConnect
    \/ UserFindConversations
    \/ ConvGetMessages
    \/ ConvWrite
    \/ UserCatch
    \/ UserFinally
    \/ AllCatch
    \/ AllFinally

(***************************************************************************)
(* Title sanitisation over every short title                               *)
(***************************************************************************)
TitleAlphabet == SpecialChars \cup {"-", "a", "&"}

Titles == UNION {[1..n -> TitleAlphabet] : n \in 0..MaxTitleLen}

SanInit ==
    /\ title \in Titles
    /\ conversationTitle = <<>>
    /\ sanitized = FALSE

\* const conversationTitle = conversation.title.replace(/[/\\?%*:|"<>]/g, '-')
Sanitize ==
    /\ ~sanitized
    /\ conversationTitle' = SanitizeTitle(title)
    /\ sanitized' = TRUE
    /\ UNCHANGED <<title, archVars, expVars, codeVars, edVars, mdVars, copyVars>>

(***************************************************************************)
(* Code.tsx: processContent                                                *)
(* A JavaScript value is a tagged record. Text is a sequence of atoms: the *)
(* characters of the literal pieces, and one atom for each fixed word the  *)
(* String conversion produces.                                             *)
(***************************************************************************)
Str(s) == [t |-> "string", s |-> s]
Undefined == [t |-> "undefined"]
Null == [t |-> "null"]
Num(n) == [t |-> "number", n |-> n]
Arr(items) == [t |-> "array", items |-> items]
\* A plain object: `fields` maps its own property names to values.
Obj(fields) == [t |-> "object", fields |-> fields]
\* A React element (React.isValidElement): `props` is always an object.
Elem(props) == [t |-> "element", props |-> props]

ObjectArtifact == "[object Object]"

IsPrimitive(v) == v.t \in {"string", "undefined", "null", "number"}

RECURSIVE JSString(_)
RECURSIVE JoinWith(_, _)
\* Array.prototype.join(sep): null and undefined elements give ''.
JoinWith(items, sep) ==
    IF Len(items) = 0 THEN <<>>
    ELSE LET head == IF items[1].t \in {"null", "undefined"} THEN <<>> ELSE JSString(items[1])
         IN IF Len(items) = 1 THEN head
            ELSE head \o sep \o JoinWith(Tail(items), sep)

\* String(v)
JSString(v) ==
    CASE v.t = "string" -> v.s
      [] v.t = "undefined" -> <<"undefined">>
      [] v.t = "null" -> <<"null">>
      [] v.t = "number" -> <<"7">>
      [] v.t = "array" -> JoinWith(v.items, <<",">>)
      [] OTHER -> <<ObjectArtifact>>

Returns(s) == [ok |-> TRUE, s |-> s]
\* A TypeError leaves the function.
Throws == [ok |-> FALSE, s |-> <<>>]

\* The first version of the conversion, kept in the debugging notes:
\* Array.isArray(children) ? children.join('') : children?.toString() ?? ''
processContentInitial(node) ==
    IF node.t = "array" THEN Returns(JoinWith(node.items, <<>>))
    ELSE IF node.t \in {"null", "undefined"} THEN Returns(<<>>)
    ELSE Returns(JSString(node))

RECURSIVE processContent(_)
RECURSIVE ProcessEach(_)
\* children.map(child => processContent(child)).join('')
ProcessEach(items) ==
    IF Len(items) = 0 THEN Returns(<<>>)
    ELSE LET head == processContent(items[1])
             rest == ProcessEach(Tail(items))
         IN IF head.ok /\ rest.ok THEN Returns(head.s \o rest.s) ELSE Throws

processContent(node) ==
    IF node.t = "array" THEN ProcessEach(node.items)
    ELSE IF node.t = "element" THEN
        \* processContent(children.props.children)
        processContent(IF "children" \in DOMAIN node.props
                         THEN node.props.children ELSE Undefined)
    ELSE IF node.t = "object" /\ "value" \in DOMAIN node.fields THEN
        Returns(JSString(node.fields.value))
    ELSE IF node.t = "object" /\ "raw" \in DOMAIN node.fields THEN
        Returns(JSString(node.fields.raw))
    ELSE IF node.t = "object" /\ "props" \in DOMAIN node.fields THEN
        \* 'children' in props: a TypeError unless props is an object
        IF IsPrimitive(node.fields.props) THEN Throws
        ELSE IF node.fields.props.t = "object"
                  /\ "children" \in DOMAIN node.fields.props.fields
               THEN processContent(node.fields.props.fields.children)
        ELSE Returns(<<ObjectArtifact>>)
    ELSE IF node.t \in {"null", "undefined"} THEN Returns(<<>>)   \* String(children ?? '')
    ELSE Returns(JSString(node))

\* The literal text pieces.
Texts == {<<>>, <<"x">>, <<"y", "z">>}

Primitives == {Str(s) : s \in Texts} \cup {Undefined, Null, Num(7)}

\* What the arrays of the model hold.
ArrayItems == {Str(s) : s \in Texts} \cup {Null}

\* Values without nesting: primitives, arrays of primitives, objects whose
\* fields hold primitives.
FlatNodes ==
    Primitives
      \cup {Arr(a) : a \in UNION {[1..n -> ArrayItems] : n \in 0..MaxArrayLen}}
      \cup {Obj(<<>>), Elem(<<>>)}
      \cup {Obj([value |-> v]) : v \in Primitives}
      \cup {Obj([raw |-> v]) : v \in Primitives}
      \cup {Obj([other |-> v]) : v \in Primitives}
      \cup {Obj([value |-> Str(v), raw |-> Str(w)]) : v \in Texts, w \in Texts}
      \cup {Obj([raw |-> Str(v), props |-> Null]) : v \in Texts}

\* One more level around the nodes of S.
Wrapped(S) ==
    {Elem([children |-> v]) : v \in S}
      \cup {Obj([props |-> Obj([children |-> v])]) : v \in S}
      \cup {Obj([props |-> v]) : v \in S}
      \cup {Obj([other |-> v]) : v \in S}
      \cup {Arr(<<v>>) : v \in S}
      \cup {Arr(<<Str(<<"x">>), v>>) : v \in S}

RECURSIVE Nodes(_)
Nodes(depth) == IF depth = 0 THEN FlatNodes
                ELSE Nodes(depth - 1) \cup Wrapped(Nodes(depth - 1))

CodeInit ==
    /\ children \in Nodes(MaxNesting)
    /\ result = Returns(<<>>)
    /\ called = FALSE

\* const content = processContent(children)
Render ==
    /\ ~called
    /\ result' = processContent(children)
    /\ called' = TRUE
    /\ UNCHANGED <<children, archVars, expVars, sanVars, edVars, mdVars, copyVars>>

(***************************************************************************)
(* MonacoEditor                                                            *)
(***************************************************************************)
languages == <<"javascript", "typescript", "python", "java", "c", "cpp", "csharp",
               "go", "rust", "php", "ruby", "swift", "kotlin", "scala", "html",
               "css", "json", "xml", "yaml", "markdown", "sql", "shell", "plaintext">>

NoModel == "none"

\* content.split('\n').length
LineCount(text) == Cardinality({i \in 1..Len(text) : text[i] = "\n"}) + 1

Min(a, b) == IF a < b THEN a ELSE b
Max(a, b) == IF a > b THEN a ELSE b

\* Math.min(Math.max(lines * lineHeight + 50, 200), 600)
CalculatedHeight(text) == Min(Max(LineCount(text) * 20 + 50, 200), 600)

EdFrame == UNCHANGED <<archVars, expVars, sanVars, codeVars, mdVars, copyVars>>

EdInit ==
    /\ content \in {<<>>, <<"x">>, <<"x", "\n", "y">>,
                    <<"\n","\n","\n","\n","\n","\n","\n","\n">>}
    /\ language \in {"plaintext", "python", "tsx"}
    /\ filename \in {<<"u","n","t","i","t","l","e","d">>, <<"a",".","p","y">>}
    /\ height = 200
    /\ currentLanguage = language
    /\ showLanguages = FALSE
    /\ mounted = FALSE
    /\ modelLanguage = NoModel
    /\ modelValue = NoModel

\* updateHeight: run by the effect on [content] and by every window resize.
updateHeight ==
    /\ height' = CalculatedHeight(content)
    /\ UNCHANGED <<content, language, filename, currentLanguage, showLanguages, mounted,
                   modelLanguage, modelValue>>
    /\ EdFrame

\* handleEditorDidMount: the editor has created its model from defaultValue
\* and defaultLanguage; the refs are set.
handleEditorDidMount ==
    /\ ~mounted
    /\ mounted' = TRUE
    /\ modelValue' = content
    /\ modelLanguage' = currentLanguage
    /\ UNCHANGED <<content, language, filename, height, currentLanguage, showLanguages>>
    /\ EdFrame

\* onClick={() => setShowLanguages(!showLanguages)}
toggleLanguages ==
    /\ showLanguages' = ~showLanguages
    /\ UNCHANGED <<content, language, filename, height, currentLanguage, mounted,
                   modelLanguage, modelValue>>
    /\ EdFrame

\* A language change that also reloads the model with the default text.
handleLanguageChangeResetting(lang) ==
    /\ showLanguages
    /\ currentLanguage' = lang
    /\ showLanguages' = FALSE
    /\ modelLanguage' = IF mounted THEN lang ELSE modelLanguage
    /\ modelValue' = IF mounted THEN <<>> ELSE modelValue
    /\ UNCHANGED <<content, language, filename, height, mounted>>
    /\ EdFrame

\* handleLanguageChange(lang), reached from a button of the open dropdown.
handleLanguageChange(lang) ==
    /\ showLanguages
    /\ currentLanguage' = lang
    /\ showLanguages' = FALSE
    /\ modelLanguage' = IF mounted THEN lang ELSE modelLanguage
    /\ UNCHANGED <<content, language, filename, height, mounted, modelValue>>
    /\ EdFrame

selectLanguage == \E i \in 1..Len(languages) : handleLanguageChange(languages[i])

MonacoEditor ==
    \/ updateHeight
    \/ handleEditorDidMount
    \/ toggleLanguages
    \/ selectLanguage

(***************************************************************************)
(* Code.tsx: CodeMarkdown, the code component and the name in the tab      *)
(***************************************************************************)
LanguagePrefix == <<"l","a","n","g","u","a","g","e","-">>

\* \w
WordChars == Lower \cup Upper \cup Digit \cup {"_"}

\* The pattern /language-(\w+)/ matches the string s from position i.
MatchesAt(s, i) ==
    /\ i + Len(LanguagePrefix) <= Len(s)
    /\ SubSeq(s, i, i + Len(LanguagePrefix) - 1) = LanguagePrefix
    /\ s[i + Len(LanguagePrefix)] \in WordChars

\* const match = /language-(\w+)/.exec(className ?? ''); const lang = match?.[1] ?? undefined
LanguageTag(cls) ==
    LET s == IF cls.t = "string" THEN cls.s ELSE <<>>
        starts == {i \in 1..Len(s) : MatchesAt(s, i)}
    IN IF starts = {}
         THEN Undefined
         ELSE LET i == CHOOSE x \in starts : \A y \in starts : x <= y
                  from == i + Len(LanguagePrefix)
                  to == CHOOSE k \in from..Len(s) :
                            /\ \A x \in from..k : s[x] \in WordChars
                            /\ k = Len(s) \/ s[k + 1] \notin WordChars
              IN Str(SubSeq(s, from, to))

\* A string or undefined taken as a condition.
Truthy(v) == v.t = "string" /\ v.s # <<>>

Untitled == <<"u","n","t","i","t","l","e","d">>

\* No editor is rendered, so there is no tab header.
NoEditor == <<>>

\* const displayFilename = filename || `untitled${lang ? `.${lang}` : ''}`
DisplayFilename(fn, lang) ==
    IF Truthy(fn)
      THEN fn.s
      ELSE Untitled \o (IF Truthy(lang) THEN <<".">> \o lang.s ELSE <<>>)

Filenames == {Undefined, Str(<<>>), Str(<<"a",".","p","y">>), Str(<<"n","o","t","e","s">>)}

ClassNames ==
    {Undefined,
     Str(LanguagePrefix \o <<"p","y">>),
     Str(<<"h","l","j","s"," ">> \o LanguagePrefix \o <<"t","s","x">> \o <<" ","x">>),
     Str(LanguagePrefix),
     Str(<<"l","a","n","g","-","j","s">>)}

NoProps == [inline |-> FALSE, className |-> Undefined, filename |-> Undefined]

\* The props ReactMarkdown hands to the renderer of a code node, without `node`:
\* const { node, ...rest } = props
Rest == [inline |-> inline, className |-> className, filename |-> Undefined]

MdFrame == UNCHANGED <<archVars, expVars, sanVars, codeVars, edVars, copyVars>>

MdInit ==
    /\ markdownFilename \in Filenames
    /\ className \in ClassNames
    /\ inline \in BOOLEAN
    /\ renderer = "none"
    /\ elementProps = NoProps
    /\ element = "none"
    /\ displayFilename = NoEditor

\* CodeMarkdown: ReactMarkdown renders a code node with
\* components.code = (props) => { const { node, ...rest } = props; return <code {...rest} /> }.
\* The lower-case tag is the HTML element, and rest holds no filename.
CodeMarkdownCode ==
    /\ renderer' = "CodeMarkdown"
    /\ elementProps' = Rest
    /\ element' = "code"
    /\ displayFilename' = NoEditor
    /\ UNCHANGED <<markdownFilename, className, inline>>
    /\ MdFrame

\* The code component rendered with the props { inline, className, children, filename }.
code ==
    /\ \E fn \in Filenames :
          /\ elementProps' = [inline |-> inline, className |-> className, filename |-> fn]
          /\ IF inline
               THEN /\ element' = "code"
                    /\ displayFilename' = NoEditor
               ELSE /\ element' = "MonacoEditor"
                    /\ displayFilename' = DisplayFilename(fn, LanguageTag(className))
    /\ renderer' = "code"
    /\ UNCHANGED <<markdownFilename, className, inline>>
    /\ MdFrame

CodeMarkdown ==
    \/ CodeMarkdownCode
    \/ code

(***************************************************************************)
(* Code.tsx: CopyCodeButton                                                *)
(***************************************************************************)
\* setTimeout(..., 3000): the delay, in seconds.
CopiedSeconds == 3

NoClick == -1

CopyFrame == UNCHANGED <<archVars, expVars, sanVars, codeVars, edVars, mdVars>>

CopyInit ==
    /\ buttonContent \in {<<"x">>, <<"x", "\n", "y">>}
    /\ clipboard = <<>>
    /\ isCopied = FALSE
    /\ timers = <<>>
    /\ clock = 0
    /\ lastClick = NoClick

\* onClick: copy(content); setIsCopied(true); setTimeout(() => setIsCopied(false), 3000)
handleCopy ==
    /\ Len(timers) < MaxTimers
    /\ clock + CopiedSeconds <= MaxClock
    /\ clipboard' = buttonContent
    /\ isCopied' = TRUE
    /\ timers' = Append(timers, clock + CopiedSeconds)
    /\ lastClick' = clock
    /\ UNCHANGED <<buttonContent, clock>>
    /\ CopyFrame

\* The callback of the oldest pending timer runs when it is due: setIsCopied(false).
TimerFires ==
    /\ timers # <<>>
    /\ Head(timers) <= clock
    /\ isCopied' = FALSE
    /\ timers' = Tail(timers)
    /\ UNCHANGED <<buttonContent, clipboard, clock, lastClick>>
    /\ CopyFrame

\* A second passes; the timers that are due have run.
TimePasses ==
    /\ clock < MaxClock
    /\ IF timers = <<>> THEN TRUE ELSE Head(timers) > clock
    /\ clock' = clock + 1
    /\ UNCHANGED <<buttonContent, clipboard, isCopied, timers, lastClick>>
    /\ CopyFrame

CopyCodeButton ==
    \/ handleCopy
    \/ TimerFires
    \/ TimePasses

(***************************************************************************)
(* Specifications: one per entry point; the others stay idle.              *)
(***************************************************************************)
ArchIdle ==
    /\ argv = <<>>
    /\ updatedAt = [c \in ConvIds |-> 0]
    /\ isArchived = [c \in ConvIds |-> FALSE]
    /\ now = StartDay
    /\ apc = "idle"
    /\ argIdx = 0
    /\ userId = NoUser
    /\ dateThreshold = 0
    /\ selectedAt = 0
    /\ oldConversations = {}
    /\ connection = "none"
    /\ dbLog = {}
    /\ exitCode = -1
    /\ before = isArchived
    /\ processed = {}
    /\ console = {}

ExpIdle ==
    /\ userName = [u \in UserIds |-> Users[u]]
    /\ convUser = ConvOwner
    /\ convTitle = [c \in ConvIds |-> <<>>]
    /\ convModel = [c \in ConvIds |-> <<>>]
    /\ convMessages = [c \in ConvIds |-> <<>>]
    /\ epc = "idle"
    /\ users = <<>>
    /\ userIdx = 0
    /\ conversations = <<>>
    /\ convIdx = 0
    /\ messages = <<>>
    /\ files = {}
    /\ expConnection = "none"
    /\ errorsCaught = 0
    /\ conversationFailed = FALSE
    /\ exportedAfterError = FALSE

SanIdle ==
    /\ title = <<>>
    /\ conversationTitle = <<>>
    /\ sanitized = FALSE

CodeIdle ==
    /\ children = Undefined
    /\ result = Returns(<<>>)
    /\ called = FALSE

EdIdle ==
    /\ content = <<>>
    /\ language = "plaintext"
    /\ filename = <<>>
    /\ height = 200
    /\ currentLanguage = "plaintext"
    /\ showLanguages = FALSE
    /\ mounted = FALSE
    /\ modelLanguage = NoModel
    /\ modelValue = NoModel

\* The archival script beside the application, which writes to the collection
\* the script reads and updates.
archiveBesideApplication ==
    \/ archiveOldConversations
    \/ ConversationActivity

MdIdle ==
    /\ markdownFilename = Undefined
    /\ className = Undefined
    /\ inline = FALSE
    /\ renderer = "idle"
    /\ elementProps = NoProps
    /\ element = "none"
    /\ displayFilename = NoEditor

CopyIdle ==
    /\ buttonContent = <<>>
    /\ clipboard = <<>>
    /\ isCopied = FALSE
    /\ timers = <<>>
    /\ clock = 0
    /\ lastClick = NoClick

InitArchive == ArchInit /\ ExpIdle /\ SanIdle /\ CodeIdle /\ EdIdle /\ MdIdle /\ CopyIdle
SpecArchive == InitArchive /\ [][archiveOldConversations]_vars

InitArchiveBesideApplication == ArchInit /\ ExpIdle /\ SanIdle /\ CodeIdle /\ EdIdle /\ MdIdle /\ CopyIdle
SpecArchiveBesideApplication ==
    InitArchiveBesideApplication /\ [][archiveBesideApplication]_vars

InitExport == ExpInit /\ ArchIdle /\ SanIdle /\ CodeIdle /\ EdIdle /\ MdIdle /\ CopyIdle
SpecExport == InitExport /\ [][exportAllUsers]_vars

InitSanitize == SanInit /\ ArchIdle /\ ExpIdle /\ CodeIdle /\ EdIdle /\ MdIdle /\ CopyIdle
SpecSanitize == InitSanitize /\ [][Sanitize]_vars

InitContent == CodeInit /\ ArchIdle /\ ExpIdle /\ SanIdle /\ EdIdle /\ MdIdle /\ CopyIdle
SpecContent == InitContent /\ [][Render]_vars

InitMarkdown ==
    MdInit /\ ArchIdle /\ ExpIdle /\ SanIdle /\ CodeIdle /\ EdIdle /\ CopyIdle
SpecMarkdown == InitMarkdown /\ [][CodeMarkdown]_vars

InitCopy ==
    CopyInit /\ ArchIdle /\ ExpIdle /\ SanIdle /\ CodeIdle /\ EdIdle /\ MdIdle
SpecCopy == InitCopy /\ [][CopyCodeButton]_vars

InitEditor == EdInit /\ ArchIdle /\ ExpIdle /\ SanIdle /\ CodeIdle /\ MdIdle /\ CopyIdle
SpecEditor == InitEditor /\ [][MonacoEditor]_vars

(***************************************************************************)
(* Properties of the archival script                                       *)
(***************************************************************************)
DryRunRequested == DryRunFlag \in Range(argv)

HasMalformedUsername == \E i \in 1..Len(argv) : ~ValidUsername(argv[i])

\* The conversations the run has flagged.
NewlyArchived == {c \in ConvIds : isArchived[c] /\ ~before[c]}

\* The conversations the completed iterations had to flag: owned by the user,
\* not archived before, last updated before the selection day minus 30 days.
DueForArchive ==
    {c \in ConvIds : /\ ~before[c]
                     /\ \E p \in processed : /\ ConvOwner[c] = p.user
                                             /\ updatedAt[c] < p.at - 30}

\* C1: a run started with --dry-run never changes isArchived on any record.
C1_DryRunNeverMutates == DryRunRequested => isArchived = before

\* C1 witness: a dry run has selected conversations of a user and moved on.
C1_Witness ==
    /\ DryRunRequested
    /\ oldConversations # {}
    /\ processed # {}
    /\ apc = "exited"

\* C2: in a real run, the conversations newly flagged are exactly those of the
\* processed users that were not archived and were last updated before the
\* selection day minus 30 days; every other record keeps its isArchived value.
C2_ExactlyOldUnarchivedFlagged ==
    ~DryRunRequested =>
        /\ NewlyArchived = DueForArchive
        /\ \A c \in ConvIds : before[c] => isArchived[c]

\* C2 witness: a real run ended having flagged one conversation of a user and
\* left alone one of the same user updated exactly 30 days before, and one of
\* a user that was not named.
C2_Witness ==
    /\ ~DryRunRequested
    /\ apc = "ended"
    /\ argv = <<Users["u1"]>>
    /\ isArchived["c1"] /\ ~before["c1"]
    /\ ~isArchived["c2"] /\ updatedAt["c2"] = selectedAt - 30
    /\ ~isArchived["c3"] /\ updatedAt["c3"] < selectedAt - 30

\* C3: when some username is malformed the run is rejected before the
\* database is touched: no connection, no query, no conversation archived.
C3_MalformedRejectedBeforeDatabase ==
    HasMalformedUsername =>
        /\ connection = "none"
        /\ dbLog = {}
        /\ isArchived = before

\* C4: once the connection has been opened, the process never ends without
\* mongoose.disconnect having been called.
C4_DisconnectOnEveryExit ==
    (apc \in {"ended", "exited"} /\ "connect" \in dbLog /\ connection # "none")
        => ("disconnect" \in dbLog /\ connection = "closed")

\* The run is over: the script ran to its end or process.exit was called.
Terminated == apc \in {"ended", "exited"}

\* A database call (connect, findOne, find, updateMany) has rejected.
DatabaseError == <<"Error archiving conversations">> \in console

\* The username the loop stands on is malformed or matches no user.
RejectedUsername(i) ==
    /\ i \in 1..Len(argv)
    /\ ~ValidUsername(argv[i]) \/ FindOneUser(argv[i]) = NoUser

\* The command line names no username, or names one the loop rejects.
RejectedInput == Len(argv) = 0 \/ \E i \in 1..Len(argv) : RejectedUsername(i)

\* C12 (as stated): a run that met missing or malformed input, an unknown user
\* or a database error ends with a non-zero exit status.
C12_NonZeroOnEveryFailure ==
    (Terminated /\ (RejectedInput \/ DatabaseError)) => exitCode \notin {0, -1}

\* C12 (amended): a run without database error whose command line is empty or
\* holds a malformed or unknown username ends with status 1; status 1 is given
\* only on such a username or an empty command line; a run where a database
\* call rejected logs the error, disconnects, and ends with status 0.
C12_ExitStatusByFailure ==
    Terminated =>
        /\ (~DatabaseError /\ RejectedInput) => (apc = "exited" /\ exitCode = 1)
        /\ exitCode = 1 => (Len(argv) = 0 \/ RejectedUsername(argIdx))
        /\ DatabaseError => (apc = "ended" /\ exitCode = 0 /\ connection = "closed")

\* C12 witness: the bulk update of a real run rejected and the process has
\* ended with status 0.
C12_Witness ==
    /\ apc = "ended"
    /\ DatabaseError
    /\ "updateMany" \in dbLog
    /\ oldConversations # {}
    /\ isArchived = before
    /\ exitCode = 0

\* The conversations of user u that the selection query matches today.
Qualifying(u) ==
    {c \in ConvIds : /\ ConvOwner[c] = u
                     /\ updatedAt[c] < now - 30
                     /\ ~isArchived[c]}

NoneToArchive(name) == <<"No conversations to archive for user", name>>

\* C13: when the selection query answers for a user with nothing to archive,
\* the script reports it, changes no record, issues no update, and goes on to
\* the next username of the list.
C13_NothingToArchiveSkipsUser ==
    [][(apc = "find" /\ apc' \notin {"find", "catch"} /\ Qualifying(userId) = {}) =>
          /\ NoneToArchive(argv[argIdx]) \in console'
          /\ isArchived' = isArchived
          /\ dbLog' = dbLog \cup {"find"}
          /\ apc' = "validate"
          /\ argIdx' = argIdx + 1]_vars

\* C13 witness: a real run reported nothing to archive for its first user and
\* is now archiving conversations of the second.
C13_Witness ==
    /\ ~DryRunRequested
    /\ argIdx = 2
    /\ NoneToArchive(argv[1]) \in console
    /\ apc = "update"
    /\ oldConversations # {}

\* C15: every conversation the bulk update flags is, at the moment of the
\* update, owned by the user being processed and last updated before the
\* 30-day threshold, whatever the application wrote since the selection.
C15_FlaggedStillQualify ==
    [][\A c \in ConvIds :
          (isArchived'[c] /\ ~isArchived[c]) =>
              /\ ConvOwner[c] = userId
              /\ updatedAt[c] < now - DAYS_THRESHOLD]_vars

(***************************************************************************)
(* Properties of the export script                                         *)
(***************************************************************************)
HasMessages(c) == Len(convMessages[c]) > 0

\* export/<username or unknown_user>/<sanitized title>--<model>-<conversationId>.json
DocumentedPath(c) ==
    exportDir \o <<"/">>
      \o (IF userName[convUser[c]] = NoName THEN UnknownUser ELSE userName[convUser[c]])
      \o <<"/">> \o SanitizeTitle(convTitle[c]) \o <<"-","-">> \o convModel[c]
      \o <<"-">> \o ConversationId[c] \o <<".","j","s","o","n">>

DocumentedFiles ==
    {<<DocumentedPath(c), <<"json", convMessages[c]>>>> : c \in {x \in ConvIds : HasMessages(x)}}

\* C5: after an all-users run without error, every conversation that has
\* messages has its file at the documented path holding its messages, one file
\* each, and nothing else was written: conversations without messages and
\* users without conversations neither produce a file nor stop the run.
C5_EveryConversationExported ==
    (epc = "done" /\ errorsCaught = 0) =>
        /\ files = DocumentedFiles
        /\ Cardinality(files) = Cardinality({c \in ConvIds : HasMessages(c)})

\* C5 witness: a run without error ended where the first user owns nothing,
\* the second has no resolvable username and owns a conversation without
\* messages followed by two with messages.
C5_Witness ==
    /\ epc = "done" /\ errorsCaught = 0
    /\ \A c \in ConvIds : convUser[c] = "u2"
    /\ userName["u2"] = NoName
    /\ ~HasMessages("c1") /\ HasMessages("c2") /\ HasMessages("c3")
    /\ Cardinality(files) = 2

\* C6: once an error has been raised while a conversation was exported,
\* nothing more is exported in that run.
C6_ErrorAbortsRun == ~exportedAfterError

\* The path conversation c is exported to.
PathOf(c) == ExportPath(convUser[c], c)

TenChars == {"/", "\\", "?", "%", "*", ":", "|", "\"", "<", ">"}

\* C7: the sanitised title has the length of the title, a '-' wherever the
\* title has one of the ten characters, the title's own character elsewhere,
\* and none of the ten characters.
C7_SanitizedTitle ==
    sanitized =>
        /\ Len(conversationTitle) = Len(title)
        /\ \A i \in 1..Len(title) :
              /\ title[i] \in TenChars => conversationTitle[i] = "-"
              /\ title[i] \notin TenChars => conversationTitle[i] = title[i]
        /\ \A i \in 1..Len(conversationTitle) : conversationTitle[i] \notin TenChars

\* C7 witness: a title with two of the ten characters around an ordinary one.
C7_Witness ==
    /\ sanitized
    /\ title = <<"%", "a", "?">>
    /\ conversationTitle = <<"-", "a", "-">>

(***************************************************************************)
(* Properties of processContent                                            *)
(***************************************************************************)
IsStringArray(v) ==
    /\ v.t = "array"
    /\ \A i \in 1..Len(v.items) : v.items[i].t = "string"

\* A raw node: an object with a raw field holding text and no value field.
IsRawNode(v) ==
    /\ v.t = "object"
    /\ "raw" \in DOMAIN v.fields
    /\ "value" \notin DOMAIN v.fields
    /\ v.fields.raw.t = "string"

\* The node under a wrapper (an element, or an object with props.children),
\* when v is such a wrapper.
IsWrapper(v) ==
    \/ v.t = "element" /\ "children" \in DOMAIN v.props
    \/ /\ v.t = "object"
       /\ DOMAIN v.fields = {"props"}
       /\ v.fields.props.t = "object"
       /\ "children" \in DOMAIN v.fields.props.fields
Inner(v) == IF v.t = "element" THEN v.props.children ELSE v.fields.props.fields.children

RECURSIVE ExposesRawText(_)
ExposesRawText(v) == IsRawNode(v) \/ (IsWrapper(v) /\ ExposesRawText(Inner(v)))

RECURSIVE RawText(_)
RawText(v) == IF IsRawNode(v) THEN v.fields.raw.s ELSE RawText(Inner(v))

RECURSIVE Concatenation(_)
Concatenation(items) ==
    IF Len(items) = 0 THEN <<>> ELSE items[1].s \o Concatenation(Tail(items))

\* C8: for a plain string, a one-level array of strings, or a nested node
\* exposing a raw-text field, processContent returns exactly the literal text
\* pieces concatenated in order, with no '[object Object]' in it.
C8_LiteralTextPreserved ==
    called =>
        /\ children.t = "string" =>
              result = Returns(children.s)
        /\ IsStringArray(children) =>
              result = Returns(Concatenation(children.items))
        /\ ExposesRawText(children) =>
              result = Returns(RawText(children))
        /\ (children.t = "string" \/ IsStringArray(children) \/ ExposesRawText(children)) =>
              ObjectArtifact \notin Range(result.s)

\* C8 witness: a raw node under an element under a props/children wrapper.
C8_Witness ==
    /\ called
    /\ children = Obj([props |-> Obj([children |->
                     Elem([children |-> Obj([raw |-> Str(<<"y", "z">>)])])])])
    /\ result = Returns(<<"y", "z">>)

\* A shape the function names: a sequence, an element, a value node, a raw
\* node, a props/children node.
IsRecognisedShape(v) ==
    \/ v.t \in {"array", "element"}
    \/ /\ v.t = "object"
       /\ \/ "value" \in DOMAIN v.fields
          \/ "raw" \in DOMAIN v.fields
          \/ /\ "props" \in DOMAIN v.fields
             /\ v.fields.props.t = "object"
             /\ "children" \in DOMAIN v.fields.props.fields

\* C9: processContent is total: it always returns a string; an absent value
\* gives the empty string; any shape it does not name (an object whose props
\* field is not an object among them) gives its default string form.
C9_TotalWithDefaultForm ==
    called =>
        /\ result.ok
        /\ children.t \in {"null", "undefined"} => result.s = <<>>
        /\ (~IsRecognisedShape(children) /\ children.t \notin {"null", "undefined"}) =>
              result.s = JSString(children)

(***************************************************************************)
(* Properties of MonacoEditor                                              *)
(***************************************************************************)
\* C10: a language-selector action (opening or closing the dropdown, choosing
\* a language) leaves the text of the editor, the content, the filename
\* header and everything but the label, the dropdown and the model's
\* language as they were.
C10_LanguageSelectorKeepsText ==
    [][(toggleLanguages \/ selectLanguage) =>
          /\ modelValue' = modelValue
          /\ content' = content
          /\ filename' = filename
          /\ height' = height
          /\ mounted' = mounted
          /\ language' = language]_vars

\* C10 witness: a mounted editor whose language was switched away from the
\* one it was given, still showing the text it was given.
C10_Witness ==
    /\ mounted
    /\ language = "python"
    /\ currentLanguage = "rust" /\ modelLanguage = "rust"
    /\ ~showLanguages
    /\ content = <<"x", "\n", "y">>
    /\ modelValue = content
    /\ filename = <<"a", ".", "p", "y">>

(***************************************************************************)
(* Properties of CodeMarkdown and of CopyCodeButton                        *)
(***************************************************************************)
\* C11: while fewer than 3000 ms have passed since the latest click, the
\* acknowledgement is showing.
C11_AcknowledgedForFullDuration ==
    (lastClick # NoClick /\ clock < lastClick + CopiedSeconds) => isCopied

\* C14: a code block rendered through CodeMarkdown has, in its editor's tab
\* header, the filename given to CodeMarkdown when that is non-empty, and
\* otherwise 'untitled' followed by '.' and the language tag if it has one.
C14_TabHeaderShowsFilename ==
    (renderer = "CodeMarkdown" /\ ~inline) =>
        displayFilename = DisplayFilename(markdownFilename, LanguageTag(className))

====
